---------------------------- MODULE Spec2Model ----------------------------
(***************************************************************************)
(* A model of the peer session layer of Cyber_Talk                         *)
(* (src/services/socketService.ts, class P2PNetwork).                      *)
(*                                                                         *)
(* Every session is one P2PNetwork object living in its own browser        *)
(* process.  Each action below is one JavaScript task: a call of the       *)
(* public API (on, off, emit, connect) or one PeerJS event callback        *)
(* registered by connect, connectAsClient and setupConnection.  A task     *)
(* runs to completion, or stops where a subscriber raises.                 *)
(***************************************************************************)
EXTENDS Naturals, Sequences, FiniteSets, TLC

(***************************************************************************)
(* Bounds of the model.                                                    *)
(***************************************************************************)
MaxLen == 3          \* longest room name drawn from the whole alphabet
MaxBus == 2          \* chat publications on one bus (a relay loop never ends)
\* Spec: two connect calls, with a subscriber and a fault
MaxConnects == 2     \* connect calls in one behaviour
MaxEmits == 1        \* emit calls in one behaviour
MaxSubs == 1         \* registrations made by on() in one behaviour
MaxFaults == 1       \* closes and transport errors in one behaviour
MaxRooms == 3        \* room names of RoomOrder a behaviour may join
\* SpecArb: the arbitration of three sessions without subscribers
ArbConnects == 3
ArbRooms == 2
\* SpecRelay: a host and two clients, one emit, one subscriber
RelayConnects == 3
RelayEmits == 1
RelaySubs == 1
RelayRooms == 1
\* SpecStatus: the status events of two connect calls and two faults, without
\* subscribers
StatusConnects == 2
StatusFaults == 2
StatusRooms == 2
\* SpecStale: three connect calls and a close, without subscribers
StaleConnects == 3
StaleFaults == 1
StaleRooms == 1
\* SpecStar: a host and a client exchanging envelopes, without subscribers
StarConnects == 2
StarEmits == 1
StarRooms == 1
\* SpecReent: activations whose 'status' subscriber calls emit
ReentConnects == 2
ReentEmits == 2
ReentSubs == 1
ReentRooms == 1
\* SpecRejoin: three connect calls, an emit and a close, without subscribers
RejoinConnects == 3
RejoinEmits == 1
RejoinFaults == 1
RejoinRooms == 3
\* SpecMsgs: the chat window receiving messages
AppIds == 3          \* distinct message ids that arrive
AppRooms == 2        \* distinct room ids that messages carry
AppLen == 4          \* longest message list a behaviour builds
\* SpecReact: the chat window receiving reaction events
ReactIds == 2        \* message ids that reaction events name
ReactEmojis == 2     \* distinct emoji
ReactUsers == 2      \* distinct user ids
ReactEvents == 4     \* reaction events a behaviour may hold
\* SpecPage: one browser loading the page, joining, reloading, logging out
PageLoads == 3       \* page loads a behaviour may hold
PageRooms == 2       \* distinct room names typed into the join form
\* SpecBus: one session and its subscribers
BusConnects == 1
BusEmits == 1
BusSubs == 2
BusRooms == 1

(***************************************************************************)
(* Room names are sequences of characters.  KELVIN stands for U+212A, a    *)
(* character outside [a-zA-Z0-9] whose lower-case form is the letter k.    *)
(***************************************************************************)
Upper == {"L", "O"}
Lower == {"l", "o", "b", "y", "k"}
Digits == {"1"}
Spaces == {" "}
Punct == {"!", "-", "KELVIN"}
Alphabet == Upper \cup Lower \cup Digits \cup Spaces \cup Punct

\* String.prototype.toLowerCase, one character at a time
toLowerCaseChar(c) ==
    CASE c = "L" -> "l"
      [] c = "O" -> "o"
      [] c = "KELVIN" -> "k"
      [] OTHER -> c

toLowerCase(str) == [i \in 1..Len(str) |-> toLowerCaseChar(str[i])]

\* String.prototype.trim: white space is dropped at both ends only
RECURSIVE trimStart(_)
trimStart(str) ==
    IF str # <<>> /\ Head(str) \in Spaces THEN trimStart(Tail(str)) ELSE str

RECURSIVE trimEnd(_)
trimEnd(str) ==
    IF str # <<>> /\ str[Len(str)] \in Spaces
    THEN trimEnd(SubSeq(str, 1, Len(str) - 1))
    ELSE str

trim(str) == trimEnd(trimStart(str))

\* the character class [^a-zA-Z0-9] of the regular expression
NonAlnum(c) == c \notin (Upper \cup Lower \cup Digits)

\* str.replace(/[^a-zA-Z0-9]/g, ''): the g flag removes every match
RECURSIVE replaceAll(_)
replaceAll(str) ==
    IF str = <<>> THEN <<>>
    ELSE IF NonAlnum(Head(str)) THEN replaceAll(Tail(str))
    ELSE <<Head(str)>> \o replaceAll(Tail(str))

\* the same replace without the g flag: only the first match is removed
RECURSIVE replaceFirst(_)
replaceFirst(str) ==
    IF str = <<>> THEN <<>>
    ELSE IF NonAlnum(Head(str)) THEN Tail(str)
    ELSE <<Head(str)>> \o replaceFirst(Tail(str))

\* line 44 with the g flag left out
cleanRoomIdFirstOnly(roomId) == toLowerCase(replaceFirst(trim(roomId)))

\* line 44 with toLowerCase() left out
cleanRoomIdKeepCase(roomId) == replaceAll(trim(roomId))

\* connect, line 44
cleanRoomId(roomId) == toLowerCase(replaceAll(trim(roomId)))

\* the namespace tag "ciphertalk-v2-" of line 47
Prefix == <<"c", "i", "p", "h", "e", "r", "t", "a", "l", "k", "-", "v", "2", "-">>

\* connect, line 47
hostId(roomId) == Prefix \o cleanRoomId(roomId)


Seq2Set(q) == {q[i] : i \in 1..Len(q)}

(***************************************************************************)
(* The sessions, the rooms they join and what they say.                    *)
(***************************************************************************)
SessionOrder == <<"s1", "s2", "s3">>
Sessions == Seq2Set(SessionOrder)

\* "Lo" and " lO!" clean to the same id, "k" to another
RoomOrder == << <<"L", "o">>, <<" ", "l", "O", "!">>, <<"k">> >>
RoomNames == Seq2Set(RoomOrder)
FirstRooms == {r \in RoomNames : hostId(r) = hostId(RoomOrder[1])}

EventNames == {"message", "status"}
EmitEvents == {"message"}
HandlerOrder == <<"h1", "h2", "h3">>
HandlerIds == Seq2Set(HandlerOrder)

\* the opaque data of the n-th emit of a behaviour
MsgIds == <<"m1", "m2", "m3", "m4">>

(***************************************************************************)
(* A Peer object is named by the session that made it, the number of the   *)
(* connect call it belongs to and whether it asked for the id of the room  *)
(* ("host") or for none ("client").  A DataConnection is named by the      *)
(* client peer that dialled it.                                            *)
(***************************************************************************)
NoConn == <<>>
NoPeer == <<>>

\* the id the PeerJS server gives a peer created without one
RandomIds == <<"r1", "r2", "r3", "r4", "r5", "r6", "r7", "r8">>
randomId(p) == <<"random", p[1], RandomIds[p[2]]>>

VARIABLES
    handlers,       \* this.handlers: event -> list of handlers
    isHost,         \* this.isHost
    isConnected,    \* this.isConnected
    messageQueue,   \* this.messageQueue
    hostConn,       \* this.hostConn: a connection (its client end) or NoConn
    connections,    \* this.connections: connections (their host ends)
    peer,           \* this.peer: a peer or NoPeer
    myPeerId,       \* this.myPeerId
    peers,          \* every Peer object created so far
    conns,          \* every DataConnection created so far, both ends
    lastOps,        \* what the last task did, in order
    lastStatus,     \* the status last published on each session's bus
    emitLog,        \* per session: its emit calls and how each was routed
    statusLog,      \* per session and connect call: the status events published
    sentLog,        \* per session: every send it made on a handle
    busLog,         \* per session: the chat data published on its bus
    activations,    \* per session: how often isConnected was set
    flushes,        \* per session: how often flushQueue drained envelopes
    limits,         \* the calls and faults a behaviour may hold
    nConnects, nEmits, nSubs, nFaults,
    nStarted,       \* how many sessions have called the API so far
    roomArg,        \* the room name given to the normalisation
    normOut,        \* the results of the normalisation
    messages,       \* the chat window's message list (ChatState.messages)
    activeRoom,     \* the room the chat window shows (ChatState.activeRoom)
    appLast,        \* the last event the chat window handled, and how many
                    \* reaction events it has handled
    page            \* the page load: its number, what it restored and stored,
                    \* the connect calls the application made in it and in
                    \* the page loads before it

sessionVars == <<handlers, isHost, isConnected, messageQueue, hostConn,
                 connections, peer, myPeerId>>
netVars == <<peers, conns>>
histVars == <<lastOps, lastStatus, emitLog, statusLog, sentLog, busLog, activations,
              flushes>>
countVars == <<limits, nConnects, nEmits, nSubs, nFaults, nStarted>>
normVars == <<roomArg, normOut>>
appVars == <<messages, activeRoom, appLast, page>>
vars == <<sessionVars, netVars, histVars, countVars, normVars, appVars>>

(***************************************************************************)
(* What a task does, as a list of steps.                                   *)
(***************************************************************************)
NoHandle == [c |-> NoConn, side |-> ""]
Pub(ev, d) == [t |-> "pub", ev |-> ev, d |-> d, h |-> "", hd |-> NoHandle]
Inv(h, ev, d) == [t |-> "inv", ev |-> ev, d |-> d, h |-> h, hd |-> NoHandle]
Raise(h, ev, d) == [t |-> "raise", ev |-> ev, d |-> d, h |-> h, hd |-> NoHandle]
Send(hd, p) == [t |-> "send", ev |-> p.event, d |-> p.data, h |-> "", hd |-> hd]
Queue(p) == [t |-> "queue", ev |-> p.event, d |-> p.data, h |-> "", hd |-> NoHandle]
Listen == [t |-> "listen", ev |-> "connection", d |-> <<>>, h |-> "", hd |-> NoHandle]

\* a task: the callback, its session, the handle it is about, what it did
Task(op, s, hd, ops) == [op |-> op, s |-> s, hd |-> hd, ops |-> ops]

StatusData(status, label) == <<status, label>>

(***************************************************************************)
(* Helpers on the objects of the program.                                  *)
(***************************************************************************)
Handle(c, side) == [c |-> c, side |-> side]

\* DataConnection.open of one end of a connection
IsOpen(cs, hd) == IF hd.side = "h" THEN cs[hd.c].hOpen ELSE cs[hd.c].cOpen

\* DataConnection.peer: the id of the peer at the other end
remotePeer(hd) ==
    IF hd.side = "h" THEN randomId(conns[hd.c].cp) ELSE peers[conns[hd.c].hp].id

\* the session whose P2PNetwork object the callbacks of a peer belong to
Owner(p) == peers[p].owner

\* the ids the rendezvous service holds: those of the open peers made with one
Claimed(id) == \E p \in DOMAIN peers :
                  peers[p].kind = "host" /\ peers[p].st = "open" /\ peers[p].id = id

HolderOf(id) == CHOOSE p \in DOMAIN peers :
                  peers[p].kind = "host" /\ peers[p].st = "open" /\ peers[p].id = id

(***************************************************************************)
(* triggerLocal (lines 156-161): the handlers of the event run in          *)
(* registration order.  k = 0: every handler returns.  k > 0: the k-th     *)
(* handler raises, which ends the forEach and the task around it.          *)
(***************************************************************************)
triggerLocal(hs, ev, d, k) ==
    [ops |-> <<Pub(ev, d)>>
               \o [i \in 1..(IF k = 0 THEN Len(hs) ELSE k) |-> Inv(hs[i], ev, d)]
               \o (IF k > 0 THEN <<Raise(hs[k], ev, d)>> ELSE <<>>),
     raised |-> k > 0]

(***************************************************************************)
(* broadcast (lines 144-154): the handles one payload is sent on.          *)
(***************************************************************************)
broadcastTargets(host, cons, hc, cs) ==
    IF host
    THEN LET open == SelectSeq(cons, LAMBDA c : cs[c].hOpen)
         IN  [i \in 1..Len(open) |-> Handle(open[i], "h")]
    ELSE IF hc # NoConn /\ cs[hc].cOpen THEN <<Handle(hc, "c")>> ELSE <<>>

\* the sends of broadcasting the payloads ps one after the other
sendOps(targets, ps) ==
    [i \in 1..(Len(ps) * Len(targets)) |->
        Send(targets[((i - 1) % Len(targets)) + 1], ps[((i - 1) \div Len(targets)) + 1])]

\* the connections after those sends: a payload sent on one end travels to
\* the other
sendAll(cs, targets, ps) ==
    [c \in DOMAIN cs |->
        [cs[c] EXCEPT !.h2c = IF Handle(c, "h") \in Seq2Set(targets) THEN @ \o ps ELSE @,
                      !.c2h = IF Handle(c, "c") \in Seq2Set(targets) THEN @ \o ps ELSE @]]

\* the log entries of a list of steps
SendsOf(ops) == SelectSeq(ops, LAMBDA o : o.t = "send")
ChatPubsOf(ops) == SelectSeq(ops, LAMBDA o : o.t = "pub" /\ o.ev \in EmitEvents)
StatusAfter(old, ops) ==
    LET st == SelectSeq(ops, LAMBDA o : o.t = "pub" /\ o.ev = "status")
    IN  IF st = <<>> THEN old ELSE st[Len(st)].d[1]

\* the status events of a task of session s, for its n-th connect call
Published(s, n, ops) ==
    LET st == SelectSeq(ops, LAMBDA o : o.t = "pub" /\ o.ev = "status")
        new == [i \in 1..Len(st) |-> [status |-> st[i].d[1], label |-> st[i].d[2]]]
        log == IF n > Len(statusLog[s]) THEN Append(statusLog[s], <<>>) ELSE statusLog[s]
    IN  statusLog' = [statusLog EXCEPT ![s] = [log EXCEPT ![n] = @ \o new]]

\* the connect calls of session s that published a status, and the status
\* events session s published for its n-th connect call
Calls(s) == 1..Len(statusLog[s])
StatusOf(s, n) == statusLog[s][n]

\* the history variables after session s ran a task
Logged(op, s, hd, ops) ==
    /\ lastOps' = Task(op, s, hd, ops)
    /\ lastStatus' = [lastStatus EXCEPT ![s] = StatusAfter(@, ops)]
    /\ sentLog' = [sentLog EXCEPT ![s] = @ \o SendsOf(ops)]
    /\ busLog' = [busLog EXCEPT ![s] =
                     @ \o [i \in 1..Len(ChatPubsOf(ops)) |-> ChatPubsOf(ops)[i].d]]

(***************************************************************************)
(* The state after construction (lines 6-15); no peer, no connection.      *)
(***************************************************************************)
InitSessions ==
    /\ handlers = [s \in Sessions |-> [e \in EventNames |-> <<>>]]
    /\ isHost = [s \in Sessions |-> FALSE]
    /\ isConnected = [s \in Sessions |-> FALSE]
    /\ messageQueue = [s \in Sessions |-> <<>>]
    /\ hostConn = [s \in Sessions |-> NoConn]
    /\ connections = [s \in Sessions |-> <<>>]
    /\ peer = [s \in Sessions |-> NoPeer]
    /\ myPeerId = [s \in Sessions |-> <<>>]
    /\ peers = <<>>
    /\ conns = <<>>
    /\ lastOps = Task("new", "", NoHandle, <<>>)
    /\ lastStatus = [s \in Sessions |-> "none"]
    /\ emitLog = [s \in Sessions |-> <<>>]
    /\ statusLog = [s \in Sessions |-> <<>>]
    /\ sentLog = [s \in Sessions |-> <<>>]
    /\ busLog = [s \in Sessions |-> <<>>]
    /\ activations = [s \in Sessions |-> 0]
    /\ flushes = [s \in Sessions |-> 0]
    /\ nConnects = 0 /\ nEmits = 0 /\ nSubs = 0 /\ nFaults = 0 /\ nStarted = 0

NormIdle == [done |-> FALSE, clean |-> <<>>, id |-> <<>>, again |-> <<>>, cleanAgain |-> <<>>]

(***************************************************************************)
(* The chat window's state (App.tsx).  A message carries its id, its room  *)
(* and its reactions.  The reactions object is optional: `defined` tells   *)
(* whether the field is present, and `keys` lists its entries in the       *)
(* order the object enumerates them, each an emoji with its user list.     *)
(***************************************************************************)
NoReactions == [defined |-> FALSE, keys |-> <<>>]
EmptyReactions == [defined |-> TRUE, keys |-> <<>>]

Message(id, roomId, reactions) == [id |-> id, roomId |-> roomId, reactions |-> reactions]
ReactionPayload(messageId, emoji, userId) ==
    [messageId |-> messageId, emoji |-> emoji, userId |-> userId]

NoEvent == [op |-> "none", arg |-> <<>>, before |-> <<>>, n |-> 0]
\* localStorage without the saved session, and the page before it loads
NoStore == [saved |-> FALSE, activeRoom |-> 0, isAuthenticated |-> FALSE, messages |-> <<>>]
NoPage == [load |-> 0, mounted |-> FALSE, isAuthenticated |-> FALSE, stored |-> NoStore,
           calls |-> <<>>, past |-> <<>>]

AppIdle == messages = <<>> /\ activeRoom = 1 /\ appLast = NoEvent /\ page = NoPage

Range(q) == {q[i] : i \in 1..Len(q)}
IdsOf(list) == {list[i].id : i \in 1..Len(list)}

\* setState(prev => ...) of handleMessage, on the message list
appendMessage(prev, msg) ==
    IF \E i \in 1..Len(prev) : prev[i].id = msg.id
    THEN prev
    ELSE Append(prev, msg)

\* the same updater without the deduplication
appendMessageAlways(prev, msg) == Append(prev, msg)

handleMessageDup(msg) ==
    /\ Len(messages) < AppLen
    /\ messages' = IF msg.roomId # activeRoom THEN messages
                   ELSE appendMessageAlways(messages, msg)
    /\ appLast' = [op |-> "message", arg |-> msg, before |-> messages, n |-> appLast.n]
    /\ UNCHANGED <<activeRoom, page, sessionVars, netVars, histVars, countVars, normVars>>

handleMessage(msg) ==
    /\ Len(messages) < AppLen
    /\ messages' = IF msg.roomId # activeRoom THEN messages
                   ELSE appendMessage(messages, msg)
    /\ appLast' = [op |-> "message", arg |-> msg, before |-> messages, n |-> appLast.n]
    /\ UNCHANGED <<activeRoom, page, sessionVars, netVars, histVars, countVars, normVars>>

\* reactions[emoji] || []
UsersOf(keys, emoji) ==
    IF \E i \in 1..Len(keys) : keys[i].emoji = emoji
    THEN keys[CHOOSE i \in 1..Len(keys) : keys[i].emoji = emoji].users
    ELSE <<>>

\* reactions[emoji] = users: an existing key keeps its place, a new one goes last
SetKey(keys, emoji, users) ==
    IF \E i \in 1..Len(keys) : keys[i].emoji = emoji
    THEN [i \in 1..Len(keys) |->
            IF keys[i].emoji = emoji THEN [emoji |-> emoji, users |-> users] ELSE keys[i]]
    ELSE Append(keys, [emoji |-> emoji, users |-> users])

\* delete reactions[emoji]
DeleteKey(keys, emoji) == SelectSeq(keys, LAMBDA e : e.emoji # emoji)

\* the same callback adding the user whether or not it is in the list
toggleReactionAddOnly(msg, payload) ==
    LET keys == msg.reactions.keys
        users == UsersOf(keys, payload.emoji)
    IN  [msg EXCEPT !.reactions =
            [defined |-> TRUE, keys |-> SetKey(keys, payload.emoji, Append(users, payload.userId))]]

\* the body of the map callback for the message the payload names
toggleReaction(msg, payload) ==
    LET keys == msg.reactions.keys
        users == UsersOf(keys, payload.emoji)
        rest == SelectSeq(users, LAMBDA id : id # payload.userId)
        after == IF payload.userId \in Range(users)
                 THEN IF Len(rest) = 0
                      THEN DeleteKey(SetKey(keys, payload.emoji, rest), payload.emoji)
                      ELSE SetKey(keys, payload.emoji, rest)
                 ELSE SetKey(keys, payload.emoji, Append(users, payload.userId))
    IN  [msg EXCEPT !.reactions = [defined |-> TRUE, keys |-> after]]

\* prev.messages.map(...) of handleReactionEvent
updatedMessages(prev, payload) ==
    [i \in 1..Len(prev) |->
        IF prev[i].id # payload.messageId THEN prev[i] ELSE toggleReaction(prev[i], payload)]

handleReactionEvent(payload) ==
    /\ appLast.n < ReactEvents
    /\ messages' = updatedMessages(messages, payload)
    /\ appLast' = [op |-> "reaction", arg |-> payload, before |-> messages,
                   n |-> appLast.n + 1]
    /\ UNCHANGED <<activeRoom, page, sessionVars, netVars, histVars, countVars, normVars>>

Limits(c, e, u, f, r) ==
    [connects |-> c, emits |-> e, subs |-> u, faults |-> f, rooms |-> r]

Init ==
    /\ InitSessions
    /\ limits = Limits(MaxConnects, MaxEmits, MaxSubs, MaxFaults, MaxRooms)
    /\ roomArg = <<>>
    /\ normOut = NormIdle
    /\ AppIdle

(***************************************************************************)
(* The sessions are interchangeable, and so are the handlers and the two   *)
(* room ids: a behaviour is explored under one naming only.  Sessions      *)
(* make their first call in the order of SessionOrder, handlers are first  *)
(* registered in the order of HandlerOrder, and the room of FirstRooms is  *)
(* the first to be joined.                                                 *)
(***************************************************************************)
Index(q, x) == CHOOSE i \in 1..Len(q) : q[i] = x

MayCall(s) == Index(SessionOrder, s) <= nStarted + 1
Called(s) == IF Index(SessionOrder, s) > nStarted THEN nStarted + 1 ELSE nStarted

Registered == UNION {Seq2Set(handlers[s][e]) : s \in Sessions, e \in EventNames}
MayRegister(h) == \A i \in 1..(Index(HandlerOrder, h) - 1) : HandlerOrder[i] \in Registered

MayJoin(roomId) ==
    /\ Index(RoomOrder, roomId) <= limits.rooms
    /\ \/ roomId \in FirstRooms
       \/ \E p \in DOMAIN peers, r \in FirstRooms : peers[p].id = hostId(r)

(***************************************************************************)
(* on (lines 17-20) and off (lines 22-25).                                 *)
(***************************************************************************)
on(s, ev, h) ==
    /\ nSubs < limits.subs
    /\ MayCall(s) /\ MayRegister(h)
    /\ nSubs' = nSubs + 1
    /\ nStarted' = Called(s)
    /\ handlers' = [handlers EXCEPT ![s][ev] = Append(@, h)]
    /\ lastOps' = Task("on", s, NoHandle, <<>>)
    /\ UNCHANGED <<isHost, isConnected, messageQueue, hostConn, connections, peer,
                   myPeerId, netVars, lastStatus, emitLog, statusLog, sentLog, busLog,
                   activations, flushes, nConnects, nEmits, nFaults, normVars, appVars, limits>>

off(s, ev, h) ==
    /\ h \in Seq2Set(handlers[s][ev])
    /\ handlers' = [handlers EXCEPT ![s][ev] = SelectSeq(@, LAMBDA x : x # h)]
    /\ lastOps' = Task("off", s, NoHandle, <<>>)
    /\ UNCHANGED <<isHost, isConnected, messageQueue, hostConn, connections, peer,
                   myPeerId, netVars, lastStatus, emitLog, statusLog, sentLog, busLog,
                   activations, flushes, countVars, normVars, appVars>>

(***************************************************************************)
(* emit (lines 27-39): local delivery, then the network or the queue.      *)
(***************************************************************************)
\* whether an end of a connection is open at both of its ends
Linked(c) == c # NoConn /\ conns[c].cOpen /\ conns[c].hOpen

\* <<H, B>> when session s is one of exactly two connected clients, s and B,
\* of the connected host H, and <<>> otherwise
RelayScene(s) ==
    IF isHost[s] \/ ~isConnected[s] \/ ~Linked(hostConn[s]) THEN <<>>
    ELSE LET hp == conns[hostConn[s]].hp
             H == Owner(hp)
             others == {b \in Sessions \ {s, H} :
                          /\ ~isHost[b] /\ isConnected[b] /\ Linked(hostConn[b])
                          /\ conns[hostConn[b]].hp = hp}
         IN  IF /\ H # s /\ isHost[H] /\ isConnected[H] /\ peer[H] = hp
                /\ Cardinality(others) = 1
                /\ Seq2Set(connections[H]) = {hostConn[b] : b \in others \cup {s}}
             THEN <<H, CHOOSE b \in others : TRUE>>
             ELSE <<>>

emit(s, ev, d, k) ==
    LET payload == [event |-> ev, data |-> d]
        t == triggerLocal(handlers[s][ev], ev, d, k)
        targets == broadcastTargets(isHost[s], connections[s], hostConn[s], conns)
        ops == IF t.raised THEN t.ops
               ELSE IF isConnected[s] THEN t.ops \o sendOps(targets, <<payload>>)
               ELSE t.ops \o <<Queue(payload)>>
    IN  /\ k <= Len(handlers[s][ev])
        /\ nEmits < limits.emits
        /\ MayCall(s)
        /\ nEmits' = nEmits + 1
        /\ nStarted' = Called(s)
        /\ conns' = IF ~t.raised /\ isConnected[s]
                    THEN sendAll(conns, targets, <<payload>>) ELSE conns
        /\ messageQueue' = IF ~t.raised /\ ~isConnected[s]
                           THEN [messageQueue EXCEPT ![s] = Append(@, payload)]
                           ELSE messageQueue
        /\ emitLog' = [emitLog EXCEPT ![s] = Append(@,
                           [d |-> d,
                            route |-> IF t.raised THEN "raised"
                                      ELSE IF isConnected[s] THEN "sent" ELSE "queued",
                            act |-> activations[s],
                            scene |-> RelayScene(s)])]
        /\ Logged("emit", s, NoHandle, ops)
        /\ UNCHANGED <<statusLog, handlers, isHost, isConnected, hostConn, connections, peer,
                       myPeerId, peers, activations, flushes, nConnects, nSubs,
                       nFaults, normVars, appVars, limits>>

(***************************************************************************)
(* flushQueue (lines 163-170): every queued payload is shifted off the     *)
(* queue and broadcast, oldest first.  Nothing else runs in between, so    *)
(* every payload goes to the same handles.                                 *)
(***************************************************************************)
flushQueue(host, cons, hc, cs, queue) ==
    LET targets == broadcastTargets(host, cons, hc, cs)
    IN  [ops |-> sendOps(targets, queue),
         conns |-> sendAll(cs, targets, queue),
         queue |-> <<>>,
         drained |-> IF queue = <<>> THEN 0 ELSE 1]

\* the name of the peer the next connect call of session s creates
NextPeer(s) ==
    <<s, Cardinality({p \in DOMAIN peers : p[1] = s /\ p[3] = "host"}) + 1, "host">>

ClientOf(p) == <<p[1], p[2], "client">>

NewPeer(s, kind, id) ==
    [owner |-> s, kind |-> kind, id |-> id, st |-> "pending", listening |-> FALSE,
     erred |-> FALSE]

NewConn(cp, hp) ==
    [cp |-> cp, hp |-> hp, offered |-> FALSE, wired |-> FALSE, failed |-> FALSE,
     cOpen |-> FALSE, hOpen |-> FALSE, cClosed |-> FALSE, hClosed |-> FALSE,
     c2h |-> <<>>, h2c |-> <<>>]

(***************************************************************************)
(* connect (lines 41-53): publish 'connecting', then try to register a     *)
(* peer under the id of the room.                                          *)
(***************************************************************************)
connect(s, roomId, k) ==
    LET t == triggerLocal(handlers[s]["status"], "status",
                          StatusData("connecting", "Resolving Host..."), k)
    IN  /\ k <= Len(handlers[s]["status"])
        /\ nConnects < limits.connects
        /\ MayCall(s) /\ MayJoin(roomId)
        /\ nConnects' = nConnects + 1
        /\ nStarted' = Called(s)
        /\ peers' = IF t.raised THEN peers
                    ELSE (NextPeer(s) :> NewPeer(s, "host", hostId(roomId))) @@ peers
        /\ Logged("connect", s, NoHandle, t.ops)
        /\ Published(s, NextPeer(s)[2], t.ops)
        /\ UNCHANGED <<sessionVars, conns, emitLog, activations, flushes, nEmits,
                       nSubs, nFaults, normVars, appVars, limits>>

(***************************************************************************)
(* peer.on('open') of connect (lines 55-71): the rendezvous service        *)
(* granted the id, which it does while no open peer holds it.              *)
(***************************************************************************)
connect_onOpen(p, k) ==
    LET s == Owner(p)
        t == triggerLocal(handlers[s]["status"], "status",
                          StatusData("host", "Host Node Active"), k)
        f == flushQueue(TRUE, connections[s], hostConn[s], conns, messageQueue[s])
    IN  /\ k <= Len(handlers[s]["status"])
        /\ peers[p].kind = "host" /\ peers[p].st = "pending"
        /\ ~Claimed(peers[p].id)
        /\ isHost' = [isHost EXCEPT ![s] = TRUE]
        /\ peer' = [peer EXCEPT ![s] = p]
        /\ myPeerId' = [myPeerId EXCEPT ![s] = peers[p].id]
        /\ isConnected' = [isConnected EXCEPT ![s] = TRUE]
        /\ activations' = [activations EXCEPT ![s] = @ + 1]
        /\ messageQueue' = IF t.raised THEN messageQueue
                           ELSE [messageQueue EXCEPT ![s] = f.queue]
        /\ conns' = IF t.raised THEN conns ELSE f.conns
        /\ flushes' = IF t.raised THEN flushes
                      ELSE [flushes EXCEPT ![s] = @ + f.drained]
        /\ peers' = [peers EXCEPT ![p].st = "open", ![p].listening = ~t.raised]
        /\ Logged("connect_onOpen", s, NoHandle,
                  IF t.raised THEN t.ops ELSE t.ops \o f.ops \o <<Listen>>)
        /\ Published(s, p[2], t.ops)
        /\ UNCHANGED <<handlers, hostConn, connections, emitLog, countVars, normVars, appVars>>

\* connectAsClient (lines 87-89): a peer without an id of its own
connectAsClient(ps, p, id) == (ClientOf(p) :> NewPeer(ps[p].owner, "client", id)) @@ ps

(***************************************************************************)
(* peer.on('error') of connect (lines 73-84).  'unavailable-id' is the     *)
(* answer of the rendezvous service while an open peer holds the id.       *)
(***************************************************************************)
\* the same without the publication of line 78
connect_onUnavailableIdSilent(p, k) ==
    LET s == Owner(p)
        failed == [peers EXCEPT ![p].st = "unavailable"]
    IN  /\ k <= Len(handlers[s]["status"])
        /\ peers[p].kind = "host" /\ peers[p].st = "pending"
        /\ Claimed(peers[p].id)
        /\ peers' = connectAsClient(failed, p, peers[p].id)
        /\ Logged("connect_onUnavailableId", s, NoHandle, <<>>)
        /\ UNCHANGED <<sessionVars, conns, emitLog, statusLog, activations, flushes,
                       countVars, normVars, appVars>>

connect_onUnavailableId(p, k) ==
    LET s == Owner(p)
        t == triggerLocal(handlers[s]["status"], "status",
                          StatusData("connecting", "Handshaking..."), k)
        failed == [peers EXCEPT ![p].st = "unavailable"]
    IN  /\ k <= Len(handlers[s]["status"])
        /\ peers[p].kind = "host" /\ peers[p].st = "pending"
        /\ Claimed(peers[p].id)
        /\ peers' = IF t.raised THEN failed
                    ELSE connectAsClient(failed, p, peers[p].id)
        /\ Logged("connect_onUnavailableId", s, NoHandle, t.ops)
        /\ Published(s, p[2], t.ops)
        /\ UNCHANGED <<sessionVars, conns, emitLog, activations, flushes, countVars,
                       normVars, appVars>>

\* any other error of that peer, before or after it opened (lines 80-83)
connect_onError(p, k) ==
    LET s == Owner(p)
        t == triggerLocal(handlers[s]["status"], "status",
                          StatusData("error", "Connection Failed"), k)
    IN  /\ k <= Len(handlers[s]["status"])
        /\ peers[p].kind = "host" /\ peers[p].st \in {"pending", "open"}
        /\ ~peers[p].erred
        /\ nFaults < limits.faults
        /\ nFaults' = nFaults + 1
        /\ peers' = IF peers[p].st = "pending"
                    THEN [peers EXCEPT ![p].st = "failed", ![p].erred = TRUE]
                    ELSE [peers EXCEPT ![p].erred = TRUE]
        /\ Logged("connect_onError", s, NoHandle, t.ops)
        /\ Published(s, p[2], t.ops)
        /\ UNCHANGED <<sessionVars, conns, emitLog, activations, flushes, nConnects,
                       nEmits, nSubs, normVars, appVars, nStarted, limits>>

(***************************************************************************)
(* peer.on('open') of connectAsClient (lines 90-113): the session takes    *)
(* the new peer, gives up the host role and dials the holder of the id.    *)
(***************************************************************************)
\* the callback below with line 93 setting isHost to true
connectAsClient_onOpenAsHost(p) ==
    LET s == Owner(p)
    IN  /\ peers[p].kind = "client" /\ peers[p].st = "pending"
        /\ Claimed(peers[p].id)
        /\ peers' = [peers EXCEPT ![p].st = "open"]
        /\ peer' = [peer EXCEPT ![s] = p]
        /\ myPeerId' = [myPeerId EXCEPT ![s] = randomId(p)]
        /\ isHost' = [isHost EXCEPT ![s] = TRUE]
        /\ conns' = (p :> NewConn(p, HolderOf(peers[p].id))) @@ conns
        /\ hostConn' = [hostConn EXCEPT ![s] = p]
        /\ Logged("connectAsClient_onOpen", s, NoHandle, <<>>)
        /\ UNCHANGED <<handlers, isConnected, messageQueue, connections, emitLog, statusLog,
                       activations, flushes, countVars, normVars, appVars>>

connectAsClient_onOpen(p) ==
    LET s == Owner(p)
    IN  /\ peers[p].kind = "client" /\ peers[p].st = "pending"
        /\ Claimed(peers[p].id)
        /\ peers' = [peers EXCEPT ![p].st = "open"]
        /\ peer' = [peer EXCEPT ![s] = p]
        /\ myPeerId' = [myPeerId EXCEPT ![s] = randomId(p)]
        /\ isHost' = [isHost EXCEPT ![s] = FALSE]
        /\ conns' = (p :> NewConn(p, HolderOf(peers[p].id))) @@ conns
        /\ hostConn' = [hostConn EXCEPT ![s] = p]
        /\ Logged("connectAsClient_onOpen", s, NoHandle, <<>>)
        /\ UNCHANGED <<handlers, isConnected, messageQueue, connections, emitLog, statusLog,
                       activations, flushes, countVars, normVars, appVars>>

(***************************************************************************)
(* peer.on('error') of connectAsClient (lines 115-117): the peer could     *)
(* not be created, or its dial failed.  The handler only logs.             *)
(***************************************************************************)
connectAsClient_onError(p) ==
    LET s == Owner(p)
        dialled == {c \in DOMAIN conns : conns[c].cp = p}
    IN  /\ peers[p].kind = "client"
        /\ \/ peers[p].st = "pending"
           \/ /\ peers[p].st = "open"
              /\ \A c \in dialled : ~conns[c].cOpen /\ ~conns[c].cClosed /\ ~conns[c].failed
        /\ nFaults < limits.faults
        /\ nFaults' = nFaults + 1
        /\ peers' = IF peers[p].st = "pending" THEN [peers EXCEPT ![p].st = "failed"]
                    ELSE peers
        /\ conns' = [c \in DOMAIN conns |->
                        IF c \in dialled THEN [conns[c] EXCEPT !.failed = TRUE]
                        ELSE conns[c]]
        /\ Logged("connectAsClient_onError", s, NoHandle, <<>>)
        /\ UNCHANGED <<sessionVars, emitLog, statusLog, activations, flushes, nConnects, nEmits,
                       nSubs, normVars, appVars, nStarted, limits>>

(***************************************************************************)
(* peer.on('connection') of the host (lines 66-70).  The listener exists   *)
(* once connect_onOpen reached line 66; without it the offer still         *)
(* arrives and the connection can still open, unknown to the session.      *)
(***************************************************************************)
connect_onConnection(c) ==
    LET hp == conns[c].hp
        s == Owner(hp)
    IN  /\ ~conns[c].offered /\ ~conns[c].failed
        /\ conns' = [conns EXCEPT ![c].offered = TRUE, ![c].wired = peers[hp].listening]
        /\ connections' = IF peers[hp].listening
                          THEN [connections EXCEPT ![s] = Append(@, c)]
                          ELSE connections
        /\ Logged("connect_onConnection", s, Handle(c, "h"), <<>>)
        /\ UNCHANGED <<handlers, isHost, isConnected, messageQueue, hostConn, peer,
                       myPeerId, peers, emitLog, statusLog, activations, flushes, countVars,
                       normVars, appVars>>

(***************************************************************************)
(* conn.on('open') of connectAsClient (lines 99-104): the dial succeeded.  *)
(***************************************************************************)
hostConn_onOpen(c, k) ==
    LET s == Owner(conns[c].cp)
        opened == [conns EXCEPT ![c].cOpen = TRUE]
        t == triggerLocal(handlers[s]["status"], "status",
                          StatusData("client", "Secure Relay Active"), k)
        f == flushQueue(isHost[s], connections[s], hostConn[s], opened, messageQueue[s])
    IN  /\ k <= Len(handlers[s]["status"])
        /\ conns[c].offered /\ ~conns[c].failed
        /\ ~conns[c].cOpen /\ ~conns[c].cClosed
        /\ isConnected' = [isConnected EXCEPT ![s] = TRUE]
        /\ activations' = [activations EXCEPT ![s] = @ + 1]
        /\ messageQueue' = IF t.raised THEN messageQueue
                           ELSE [messageQueue EXCEPT ![s] = f.queue]
        /\ conns' = IF t.raised THEN opened ELSE f.conns
        /\ flushes' = IF t.raised THEN flushes
                      ELSE [flushes EXCEPT ![s] = @ + f.drained]
        /\ Logged("hostConn_onOpen", s, Handle(c, "c"), IF t.raised THEN t.ops ELSE t.ops \o f.ops)
        /\ Published(s, c[2], t.ops)
        /\ UNCHANGED <<handlers, isHost, hostConn, connections, peer, myPeerId, peers,
                       emitLog, countVars, normVars, appVars>>

(***************************************************************************)
(* The two activation callbacks when the first 'status' subscriber calls   *)
(* emit('message', d) from inside its invocation (lines 61 and 101):       *)
(* isConnected is already true (lines 60 and 100), so the nested emit      *)
(* (lines 27-39) delivers locally and broadcasts at once, and flushQueue   *)
(* (lines 62 and 102) runs after the subscribers returned.                 *)
(***************************************************************************)
\* the steps of the publication of a status whose first subscriber emits d
publishEmitting(s, sd, d, targets) ==
    LET hs == handlers[s]["status"]
        payload == [event |-> "message", data |-> d]
        nested == triggerLocal(handlers[s]["message"], "message", d, 0)
    IN  <<Pub("status", sd), Inv(hs[1], "status", sd)>>
            \o nested.ops \o sendOps(targets, <<payload>>)
            \o [i \in 1..(Len(hs) - 1) |-> Inv(hs[i + 1], "status", sd)]

connect_onOpen_emitting(p, d) ==
    LET s == Owner(p)
        payload == [event |-> "message", data |-> d]
        targets == broadcastTargets(TRUE, connections[s], hostConn[s], conns)
        sent == sendAll(conns, targets, <<payload>>)
        pub == publishEmitting(s, StatusData("host", "Host Node Active"), d, targets)
        f == flushQueue(TRUE, connections[s], hostConn[s], sent, messageQueue[s])
    IN  /\ handlers[s]["status"] # <<>>
        /\ nEmits < limits.emits
        /\ peers[p].kind = "host" /\ peers[p].st = "pending"
        /\ ~Claimed(peers[p].id)
        /\ nEmits' = nEmits + 1
        /\ isHost' = [isHost EXCEPT ![s] = TRUE]
        /\ peer' = [peer EXCEPT ![s] = p]
        /\ myPeerId' = [myPeerId EXCEPT ![s] = peers[p].id]
        /\ isConnected' = [isConnected EXCEPT ![s] = TRUE]
        /\ activations' = [activations EXCEPT ![s] = @ + 1]
        /\ emitLog' = [emitLog EXCEPT ![s] = Append(@,
                           [d |-> d, route |-> "sent", act |-> activations[s],
                            scene |-> <<>>])]
        /\ messageQueue' = [messageQueue EXCEPT ![s] = f.queue]
        /\ conns' = f.conns
        /\ flushes' = [flushes EXCEPT ![s] = @ + f.drained]
        /\ peers' = [peers EXCEPT ![p].st = "open", ![p].listening = TRUE]
        /\ Logged("connect_onOpen", s, NoHandle, pub \o f.ops \o <<Listen>>)
        /\ Published(s, p[2], pub)
        /\ UNCHANGED <<handlers, hostConn, connections, limits, nConnects, nSubs, nFaults,
                       nStarted, normVars, appVars>>

hostConn_onOpen_emitting(c, d) ==
    LET s == Owner(conns[c].cp)
        payload == [event |-> "message", data |-> d]
        opened == [conns EXCEPT ![c].cOpen = TRUE]
        targets == broadcastTargets(isHost[s], connections[s], hostConn[s], opened)
        sent == sendAll(opened, targets, <<payload>>)
        pub == publishEmitting(s, StatusData("client", "Secure Relay Active"), d, targets)
        f == flushQueue(isHost[s], connections[s], hostConn[s], sent, messageQueue[s])
    IN  /\ handlers[s]["status"] # <<>>
        /\ nEmits < limits.emits
        /\ conns[c].offered /\ ~conns[c].failed
        /\ ~conns[c].cOpen /\ ~conns[c].cClosed
        /\ nEmits' = nEmits + 1
        /\ isConnected' = [isConnected EXCEPT ![s] = TRUE]
        /\ activations' = [activations EXCEPT ![s] = @ + 1]
        /\ emitLog' = [emitLog EXCEPT ![s] = Append(@,
                           [d |-> d, route |-> "sent", act |-> activations[s],
                            scene |-> <<>>])]
        /\ messageQueue' = [messageQueue EXCEPT ![s] = f.queue]
        /\ conns' = f.conns
        /\ flushes' = [flushes EXCEPT ![s] = @ + f.drained]
        /\ Logged("hostConn_onOpen", s, Handle(c, "c"), pub \o f.ops)
        /\ Published(s, c[2], pub)
        /\ UNCHANGED <<handlers, isHost, hostConn, connections, peer, myPeerId, peers,
                       limits, nConnects, nSubs, nFaults, nStarted, normVars, appVars>>

\* the host end of a connection opens: no callback of the program runs, only
\* the open flag read at lines 132 and 148 changes
downstream_opens(c) ==
    /\ conns[c].offered /\ ~conns[c].failed
    /\ ~conns[c].hOpen /\ ~conns[c].hClosed
    /\ conns' = [conns EXCEPT ![c].hOpen = TRUE]
    /\ lastOps' = Task("downstream_opens", Owner(conns[c].hp), Handle(c, "h"), <<>>)
    /\ UNCHANGED <<sessionVars, peers, lastStatus, emitLog, statusLog, sentLog, busLog,
                   activations, flushes, countVars, normVars, appVars>>

(***************************************************************************)
(* conn.on('close') of connectAsClient (lines 107-110), followed by the    *)
(* close handler of setupConnection (lines 139-141), which finds nothing   *)
(* to remove: this.connections holds host ends only.  PeerJS emits 'close' *)
(* once, for an end that was open.                                         *)
(***************************************************************************)
hostConn_onClose(c, k) ==
    LET s == Owner(conns[c].cp)
        t == triggerLocal(handlers[s]["status"], "status",
                          StatusData("disconnected", "Host Lost"), k)
    IN  /\ k <= Len(handlers[s]["status"])
        /\ conns[c].cOpen
        /\ nFaults < limits.faults
        /\ nFaults' = nFaults + 1
        /\ conns' = [conns EXCEPT ![c].cOpen = FALSE, ![c].cClosed = TRUE, ![c].h2c = <<>>]
        /\ isConnected' = [isConnected EXCEPT ![s] = FALSE]
        /\ Logged("hostConn_onClose", s, Handle(c, "c"), t.ops)
        /\ Published(s, c[2], t.ops)
        /\ UNCHANGED <<handlers, isHost, messageQueue, hostConn, connections, peer,
                       myPeerId, peers, emitLog, activations, flushes, nConnects,
                       nEmits, nSubs, normVars, appVars, nStarted, limits>>

(***************************************************************************)
(* conn.on('close') of setupConnection (lines 139-141) at a host end.      *)
(***************************************************************************)
setupConnection_onClose(c) ==
    LET s == Owner(conns[c].hp)
    IN  /\ conns[c].hOpen
        /\ nFaults < limits.faults
        /\ nFaults' = nFaults + 1
        /\ conns' = [conns EXCEPT ![c].hOpen = FALSE, ![c].hClosed = TRUE, ![c].c2h = <<>>]
        /\ connections' = IF conns[c].wired
                          THEN [connections EXCEPT ![s] = SelectSeq(@, LAMBDA x : x # c)]
                          ELSE connections
        /\ Logged("setupConnection_onClose", s, Handle(c, "h"), <<>>)
        /\ UNCHANGED <<handlers, isHost, isConnected, messageQueue, hostConn, peer,
                       myPeerId, peers, emitLog, statusLog, activations, flushes, nConnects,
                       nEmits, nSubs, normVars, appVars, nStarted, limits>>

(***************************************************************************)
(* conn.on('data') of setupConnection (lines 121-137), at either end of a  *)
(* connection: local delivery, then the relay of a host.  A host end whose *)
(* session never saw the connection has no handler: the data is lost.      *)
(***************************************************************************)
relayTargets(s, hd, cs) ==
    LET others == SelectSeq(connections[s], LAMBDA x :
                      remotePeer(Handle(x, "h")) # remotePeer(hd) /\ cs[x].hOpen)
    IN  [i \in 1..Len(others) |-> Handle(others[i], "h")]

\* the same with the receiver sending the data back on the handle it came
\* from, whatever its role
setupConnection_onDataEcho(c, side, k) ==
    LET hd == Handle(c, side)
        s == IF side = "h" THEN Owner(conns[c].hp) ELSE Owner(conns[c].cp)
        inbox == IF side = "h" THEN conns[c].c2h ELSE conns[c].h2c
        data == Head(inbox)
        popped == IF side = "h" THEN [conns EXCEPT ![c].c2h = Tail(@)]
                  ELSE [conns EXCEPT ![c].h2c = Tail(@)]
        handled == side = "c" \/ conns[c].wired
        t == triggerLocal(handlers[s][data.event], data.event, data.data, k)
        relay == handled /\ ~t.raised
        targets == <<hd>>
    IN  /\ IsOpen(conns, hd)
        /\ inbox # <<>>
        /\ Len(busLog[s]) < MaxBus
        /\ IF handled THEN k <= Len(handlers[s][data.event]) ELSE k = 0
        /\ conns' = IF relay THEN sendAll(popped, targets, <<data>>) ELSE popped
        /\ Logged("setupConnection_onData", s, hd,
                  IF ~handled THEN <<>>
                  ELSE IF relay THEN t.ops \o sendOps(targets, <<data>>)
                  ELSE t.ops)
        /\ UNCHANGED <<sessionVars, peers, emitLog, statusLog, activations, flushes, countVars,
                       normVars, appVars>>

setupConnection_onData(c, side, k) ==
    LET hd == Handle(c, side)
        s == IF side = "h" THEN Owner(conns[c].hp) ELSE Owner(conns[c].cp)
        inbox == IF side = "h" THEN conns[c].c2h ELSE conns[c].h2c
        data == Head(inbox)
        popped == IF side = "h" THEN [conns EXCEPT ![c].c2h = Tail(@)]
                  ELSE [conns EXCEPT ![c].h2c = Tail(@)]
        handled == side = "c" \/ conns[c].wired
        t == triggerLocal(handlers[s][data.event], data.event, data.data, k)
        relay == handled /\ ~t.raised /\ isHost[s]
        targets == relayTargets(s, hd, popped)
    IN  /\ IsOpen(conns, hd)
        /\ inbox # <<>>
        /\ Len(busLog[s]) < MaxBus
        /\ IF handled THEN k <= Len(handlers[s][data.event]) ELSE k = 0
        /\ conns' = IF relay THEN sendAll(popped, targets, <<data>>) ELSE popped
        /\ Logged("setupConnection_onData", s, hd,
                  IF ~handled THEN <<>>
                  ELSE IF relay THEN t.ops \o sendOps(targets, <<data>>)
                  ELSE t.ops)
        /\ UNCHANGED <<sessionVars, peers, emitLog, statusLog, activations, flushes, countVars,
                       normVars, appVars>>

(***************************************************************************)
(* The normalisation of a room name on its own.                            *)
(***************************************************************************)
RECURSIVE SeqsUpTo(_)
SeqsUpTo(n) ==
    IF n = 0 THEN {<<>>}
    ELSE LET shorter == SeqsUpTo(n - 1)
         IN  shorter \cup {Append(q, c) : q \in shorter, c \in Alphabet}

Lobby == <<"L", "o", "b", "b", "y">>
LobbyNoisy == <<" ", " ", "l", "o", "b", "b", "y", "!", "!">>

NormInputs == SeqsUpTo(MaxLen) \cup {Lobby, LobbyNoisy}

normalize ==
    /\ ~normOut.done
    /\ normOut' = [done |-> TRUE,
                   clean |-> cleanRoomId(roomArg),
                   id |-> hostId(roomArg),
                   again |-> hostId(hostId(roomArg)),
                   cleanAgain |-> cleanRoomId(cleanRoomId(roomArg))]
    /\ UNCHANGED <<roomArg, sessionVars, netVars, histVars, countVars, appVars>>

InitNorm ==
    /\ InitSessions
    /\ limits = Limits(0, 0, 0, 0, 0)
    /\ roomArg \in NormInputs
    /\ normOut = NormIdle
    /\ AppIdle

NextNorm == normalize

SpecNorm == InitNorm /\ [][NextNorm]_vars

(***************************************************************************)
(* The sessions and the network.                                           *)
(***************************************************************************)
Next ==
    \/ \E s \in Sessions, ev \in EventNames, h \in HandlerIds : on(s, ev, h)
    \/ \E s \in Sessions, ev \in EventNames, h \in HandlerIds : off(s, ev, h)
    \/ \E s \in Sessions, ev \in EmitEvents :
         \E k \in 0..limits.subs : emit(s, ev, <<MsgIds[nEmits + 1]>>, k)
    \/ \E s \in Sessions, r \in RoomNames :
         \E k \in 0..limits.subs : connect(s, r, k)
    \/ \E p \in DOMAIN peers :
         \E k \in 0..limits.subs : connect_onOpen(p, k)
    \/ \E p \in DOMAIN peers :
         \E k \in 0..limits.subs : connect_onUnavailableId(p, k)
    \/ \E p \in DOMAIN peers :
         \E k \in 0..limits.subs : connect_onError(p, k)
    \/ \E p \in DOMAIN peers : connectAsClient_onOpen(p)
    \/ \E p \in DOMAIN peers : connectAsClient_onError(p)
    \/ \E c \in DOMAIN conns : connect_onConnection(c)
    \/ \E c \in DOMAIN conns :
         \E k \in 0..limits.subs : hostConn_onOpen(c, k)
    \/ \E c \in DOMAIN conns : downstream_opens(c)
    \/ \E c \in DOMAIN conns :
         \E k \in 0..limits.subs : hostConn_onClose(c, k)
    \/ \E c \in DOMAIN conns : setupConnection_onClose(c)
    \/ \E c \in DOMAIN conns, side \in {"h", "c"} :
         \E k \in 0..limits.subs : setupConnection_onData(c, side, k)

Spec == Init /\ [][Next]_vars

InitArb == InitSessions /\ limits = Limits(ArbConnects, 0, 0, 0, ArbRooms)
                        /\ roomArg = <<>> /\ normOut = NormIdle /\ AppIdle
NextArb ==
    \/ \E s \in Sessions, r \in RoomNames :
         \E k \in 0..limits.subs : connect(s, r, k)
    \/ \E p \in DOMAIN peers :
         \E k \in 0..limits.subs : connect_onOpen(p, k)
    \/ \E p \in DOMAIN peers :
         \E k \in 0..limits.subs : connect_onUnavailableId(p, k)
    \/ \E p \in DOMAIN peers : connectAsClient_onOpen(p)
    \/ \E c \in DOMAIN conns : connect_onConnection(c)
    \/ \E c \in DOMAIN conns :
         \E k \in 0..limits.subs : hostConn_onOpen(c, k)
    \/ \E c \in DOMAIN conns : downstream_opens(c)
SpecArb == InitArb /\ [][NextArb]_vars

InitRelay == InitSessions /\ limits = Limits(RelayConnects, RelayEmits, RelaySubs, 0, RelayRooms)
                          /\ roomArg = <<>> /\ normOut = NormIdle /\ AppIdle
NextRelay ==
    \/ NextArb
    \/ \E s \in Sessions, ev \in EventNames, h \in HandlerIds : on(s, ev, h)
    \/ \E s \in Sessions, ev \in EmitEvents :
         \E k \in 0..limits.subs : emit(s, ev, <<MsgIds[nEmits + 1]>>, k)
    \/ \E c \in DOMAIN conns, side \in {"h", "c"} :
         \E k \in 0..limits.subs : setupConnection_onData(c, side, k)
SpecRelay == InitRelay /\ [][NextRelay]_vars

InitStatus == InitSessions /\ limits = Limits(StatusConnects, 0, 0, StatusFaults, StatusRooms)
                           /\ roomArg = <<>> /\ normOut = NormIdle /\ AppIdle
NextStatus ==
    \/ NextArb
    \/ \E p \in DOMAIN peers :
         \E k \in 0..limits.subs : connect_onError(p, k)
    \/ \E p \in DOMAIN peers : connectAsClient_onError(p)
    \/ \E c \in DOMAIN conns :
         \E k \in 0..limits.subs : hostConn_onClose(c, k)
    \/ \E c \in DOMAIN conns : setupConnection_onClose(c)
SpecStatus == InitStatus /\ [][NextStatus]_vars

InitStale == InitSessions /\ limits = Limits(StaleConnects, 0, 0, StaleFaults, StaleRooms)
                          /\ roomArg = <<>> /\ normOut = NormIdle /\ AppIdle
SpecStale == InitStale /\ [][NextStatus]_vars

InitStar == InitSessions /\ limits = Limits(StarConnects, StarEmits, 0, 0, StarRooms)
                         /\ roomArg = <<>> /\ normOut = NormIdle /\ AppIdle
NextStar ==
    \/ NextArb
    \/ \E s \in Sessions, ev \in EmitEvents :
         \E k \in 0..limits.subs : emit(s, ev, <<MsgIds[nEmits + 1]>>, k)
    \/ \E c \in DOMAIN conns, side \in {"h", "c"} :
         \E k \in 0..limits.subs : setupConnection_onData(c, side, k)
SpecStar == InitStar /\ [][NextStar]_vars

InitReent == InitSessions /\ limits = Limits(ReentConnects, ReentEmits, ReentSubs, 0, ReentRooms)
                          /\ roomArg = <<>> /\ normOut = NormIdle /\ AppIdle
NextReent ==
    \/ NextArb
    \/ \E s \in Sessions, h \in HandlerIds : on(s, "status", h)
    \/ \E s \in Sessions, ev \in EmitEvents :
         \E k \in 0..limits.subs : emit(s, ev, <<MsgIds[nEmits + 1]>>, k)
    \/ \E p \in DOMAIN peers : connect_onOpen_emitting(p, <<MsgIds[nEmits + 1]>>)
    \/ \E c \in DOMAIN conns : hostConn_onOpen_emitting(c, <<MsgIds[nEmits + 1]>>)
SpecReent == InitReent /\ [][NextReent]_vars

InitRejoin == InitSessions /\ limits = Limits(RejoinConnects, RejoinEmits, 0, RejoinFaults,
                                               RejoinRooms)
                           /\ roomArg = <<>> /\ normOut = NormIdle /\ AppIdle
NextRejoin ==
    \/ NextStar
    \/ \E p \in DOMAIN peers :
         \E k \in 0..limits.subs : connect_onError(p, k)
    \/ \E p \in DOMAIN peers : connectAsClient_onError(p)
    \/ \E c \in DOMAIN conns :
         \E k \in 0..limits.subs : hostConn_onClose(c, k)
    \/ \E c \in DOMAIN conns : setupConnection_onClose(c)
SpecRejoin == InitRejoin /\ [][NextRejoin]_vars

(***************************************************************************)
(* The chat window alone: messages arrive for the room it shows and for    *)
(* other rooms, with ids that repeat.                                      *)
(***************************************************************************)
AppRoomIds == 1..AppRooms
Arrivals == {Message(id, r, rx) : id \in 1..AppIds, r \in AppRoomIds,
                                  rx \in {NoReactions, EmptyReactions}}

InitMsgs ==
    /\ InitSessions
    /\ limits = Limits(0, 0, 0, 0, 0)
    /\ roomArg = <<>> /\ normOut = NormIdle
    /\ messages = <<>>
    /\ activeRoom \in AppRoomIds
    /\ appLast = NoEvent
    /\ page = NoPage

NextMsgs == \E msg \in Arrivals : handleMessage(msg)

SpecMsgs == InitMsgs /\ [][NextMsgs]_vars

(***************************************************************************)
(* The chat window holding one message that reactions name and one that    *)
(* they never name; events also name ids that are not in the list.         *)
(***************************************************************************)
Unnamed == Message(0, 1, NoReactions)
Payloads == {ReactionPayload(m, e, u) : m \in 1..ReactIds, e \in 1..ReactEmojis,
                                        u \in 1..ReactUsers}

InitReact ==
    /\ InitSessions
    /\ limits = Limits(0, 0, 0, 0, 0)
    /\ roomArg = <<>> /\ normOut = NormIdle
    /\ messages \in {<<Message(1, 1, rx), Unnamed>> : rx \in {NoReactions, EmptyReactions}}
    /\ activeRoom = 1
    /\ appLast = NoEvent
    /\ page = NoPage

NextReact == \E payload \in Payloads : handleReactionEvent(payload)

SpecReact == InitReact /\ [][NextReact]_vars

(***************************************************************************)
(* The page of one browser (App.tsx).  A page load constructs the          *)
(* P2PNetwork object and the ChatState, the latter from localStorage when  *)
(* a session was saved.  Room 0 is the empty room name, room 1 the name    *)
(* the ChatState starts with, and the rooms from 1 on are named by         *)
(* RoomOrder.  The listeners of the window are kept out of `handlers`:     *)
(* what handleMessage does with the join message is written where emit     *)
(* publishes it.                                                           *)
(***************************************************************************)
Visitor == SessionOrder[1]
PageRoomIds == 0..PageRooms
RoomName(i) == IF i = 0 THEN <<>> ELSE RoomOrder[i]
Usernames == {<<>>, <<" ">>, <<"a">>}
Stores == {NoStore} \cup
          {[saved |-> TRUE, activeRoom |-> r, isAuthenticated |-> TRUE, messages |-> <<>>] :
              r \in PageRoomIds}

\* useState(() => ...): the ChatState of a page that loads with this store
Loaded(n, store) ==
    /\ page = [load |-> n, mounted |-> FALSE,
               isAuthenticated |-> store.saved /\ store.isAuthenticated,
               stored |-> store, calls |-> <<>>, past |-> <<>>]
    /\ activeRoom = IF store.saved THEN store.activeRoom ELSE 1
    /\ messages = IF store.saved THEN store.messages ELSE <<>>
    /\ appLast = NoEvent

InitPage ==
    /\ InitSessions
    /\ limits = Limits(0, 0, 0, 0, PageRooms)
    /\ roomArg = <<>> /\ normOut = NormIdle
    /\ \E store \in Stores : Loaded(1, store)

\* the effects of the first render: the session is saved again when it is
\* authenticated, and restored when it also names a room
mount ==
    LET s == Visitor
        restores == page.isAuthenticated /\ activeRoom # 0
        t == triggerLocal(handlers[s]["status"], "status",
                          StatusData("connecting", "Resolving Host..."), 0)
    IN  /\ ~page.mounted
        /\ page' = [page EXCEPT
                      !.mounted = TRUE,
                      !.calls = IF restores THEN Append(@, "restore") ELSE @,
                      !.stored = IF page.isAuthenticated
                                 THEN [saved |-> TRUE, activeRoom |-> activeRoom,
                                       isAuthenticated |-> TRUE, messages |-> messages]
                                 ELSE @]
        /\ IF restores
           THEN /\ peers' = (NextPeer(s) :> NewPeer(s, "host", hostId(RoomName(activeRoom))))
                               @@ peers
                /\ nConnects' = nConnects + 1
                /\ nStarted' = Called(s)
                /\ Logged("connect", s, NoHandle, t.ops)
                /\ Published(s, NextPeer(s)[2], t.ops)
           ELSE UNCHANGED <<peers, nConnects, nStarted, lastOps, lastStatus, sentLog,
                            busLog, statusLog>>
        /\ UNCHANGED <<sessionVars, conns, emitLog, activations, flushes, nEmits, nSubs,
                       nFaults, limits, normVars, messages, activeRoom, appLast>>

\* handleJoin: connect, the new ChatState, and the join message emitted
\* while the listener still compares with the room of the last render
handleJoin(username, roomId) ==
    LET s == Visitor
        joinMsg == Message(page.load, roomId, NoReactions)
        payload == [event |-> "message", data |-> joinMsg]
        t == triggerLocal(handlers[s]["status"], "status",
                          StatusData("connecting", "Resolving Host..."), 0)
        e == triggerLocal(handlers[s]["message"], "message", joinMsg, 0)
        targets == broadcastTargets(isHost[s], connections[s], hostConn[s], conns)
        ops == IF isConnected[s] THEN t.ops \o e.ops \o sendOps(targets, <<payload>>)
               ELSE t.ops \o e.ops \o <<Queue(payload)>>
        listed == IF roomId # activeRoom THEN messages ELSE appendMessage(messages, joinMsg)
    IN  /\ peers' = (NextPeer(s) :> NewPeer(s, "host", hostId(RoomName(roomId)))) @@ peers
        /\ nConnects' = nConnects + 1
        /\ nEmits' = nEmits + 1
        /\ nStarted' = Called(s)
        /\ conns' = IF isConnected[s] THEN sendAll(conns, targets, <<payload>>) ELSE conns
        /\ messageQueue' = IF isConnected[s] THEN messageQueue
                           ELSE [messageQueue EXCEPT ![s] = Append(@, payload)]
        /\ emitLog' = [emitLog EXCEPT ![s] = Append(@,
                           [d |-> joinMsg,
                            route |-> IF isConnected[s] THEN "sent" ELSE "queued",
                            act |-> activations[s],
                            scene |-> RelayScene(s)])]
        /\ Logged("handleJoin", s, NoHandle, ops)
        /\ Published(s, NextPeer(s)[2], ops)
        /\ messages' = listed
        /\ activeRoom' = roomId
        /\ appLast' = [op |-> "message", arg |-> joinMsg, before |-> messages,
                       n |-> appLast.n]
        /\ page' = [page EXCEPT
                      !.isAuthenticated = TRUE,
                      !.calls = Append(@, "join"),
                      !.stored = [saved |-> TRUE, activeRoom |-> roomId,
                                  isAuthenticated |-> TRUE, messages |-> listed]]
        /\ UNCHANGED <<handlers, isHost, isConnected, hostConn, connections, peer,
                       myPeerId, activations, flushes, nSubs, nFaults, limits, normVars>>

\* the join form shown whatever the ChatState holds
handleSubmitUngated(username, roomId) ==
    /\ page.mounted
    /\ IF trim(username) # <<>> THEN handleJoin(username, roomId) ELSE UNCHANGED vars

\* Auth.handleSubmit: the form is rendered only while not authenticated
handleSubmit(username, roomId) ==
    /\ page.mounted
    /\ ~page.isAuthenticated
    /\ IF trim(username) # <<>> THEN handleJoin(username, roomId) ELSE UNCHANGED vars

\* the browser loads the page again: a new P2PNetwork and a new ChatState
loadAgain(store) ==
    /\ page.load < PageLoads
    /\ handlers' = [s \in Sessions |-> [e \in EventNames |-> <<>>]]
    /\ isHost' = [s \in Sessions |-> FALSE]
    /\ isConnected' = [s \in Sessions |-> FALSE]
    /\ messageQueue' = [s \in Sessions |-> <<>>]
    /\ hostConn' = [s \in Sessions |-> NoConn]
    /\ connections' = [s \in Sessions |-> <<>>]
    /\ peer' = [s \in Sessions |-> NoPeer]
    /\ myPeerId' = [s \in Sessions |-> <<>>]
    /\ peers' = <<>>
    /\ conns' = <<>>
    /\ lastOps' = Task("new", "", NoHandle, <<>>)
    /\ lastStatus' = [s \in Sessions |-> "none"]
    /\ emitLog' = [s \in Sessions |-> <<>>]
    /\ statusLog' = [s \in Sessions |-> <<>>]
    /\ sentLog' = [s \in Sessions |-> <<>>]
    /\ busLog' = [s \in Sessions |-> <<>>]
    /\ activations' = [s \in Sessions |-> 0]
    /\ flushes' = [s \in Sessions |-> 0]
    /\ nConnects' = 0 /\ nEmits' = 0 /\ nSubs' = 0 /\ nFaults' = 0 /\ nStarted' = 0
    /\ page' = [load |-> page.load + 1, mounted |-> FALSE,
                isAuthenticated |-> store.saved /\ store.isAuthenticated,
                stored |-> store, calls |-> <<>>, past |-> Append(page.past, page.calls)]
    /\ activeRoom' = IF store.saved THEN store.activeRoom ELSE 1
    /\ messages' = IF store.saved THEN store.messages ELSE <<>>
    /\ appLast' = NoEvent
    /\ UNCHANGED <<limits, normVars>>

\* the user reloads the page
reload ==
    /\ page.mounted
    /\ loadAgain(page.stored)

\* handleLogout: the button of the sidebar, shown once authenticated
handleLogout ==
    /\ page.mounted
    /\ page.isAuthenticated
    /\ loadAgain(NoStore)

NextPage ==
    \/ mount
    \/ \E username \in Usernames, roomId \in PageRoomIds : handleSubmit(username, roomId)
    \/ reload
    \/ handleLogout
    \/ \E p \in DOMAIN peers : connect_onOpen(p, 0)

SpecPage == InitPage /\ [][NextPage]_vars

InitBus == InitSessions /\ limits = Limits(BusConnects, BusEmits, BusSubs, 0, BusRooms)
                        /\ roomArg = <<>> /\ normOut = NormIdle /\ AppIdle
NextBus ==
    \/ \E s \in Sessions, ev \in EventNames, h \in HandlerIds : on(s, ev, h)
    \/ \E s \in Sessions, ev \in EventNames, h \in HandlerIds : off(s, ev, h)
    \/ \E s \in Sessions, ev \in EmitEvents :
         \E k \in 0..limits.subs : emit(s, ev, <<MsgIds[nEmits + 1]>>, k)
    \/ \E s \in Sessions, r \in RoomNames :
         \E k \in 0..limits.subs : connect(s, r, k)
    \/ \E p \in DOMAIN peers :
         \E k \in 0..limits.subs : connect_onOpen(p, k)
SpecBus == InitBus /\ [][NextBus]_vars

(***************************************************************************)
(* The claims about the canonical id (SpecNorm).                           *)
(***************************************************************************)

\* the characters of str that are letters or digits, in order
RECURSIVE AlnumOnly(_)
AlnumOnly(str) ==
    IF str = <<>> THEN <<>>
    ELSE (IF Head(str) \in Upper \cup Lower \cup Digits THEN <<Head(str)>> ELSE <<>>)
         \o AlnumOnly(Tail(str))

\* C7 as stated: the map from room name to canonical id is idempotent,
\* normalize(normalize(r)) = normalize(r) with normalize the id of connect.
C7_IdIdempotent ==
    normOut.done => normOut.again = normOut.id

\* C7 amended: the cleaning of the room name (trim, strip, lower-case) is
\* idempotent, and the canonical id of the cleaned name is the id of the name.
C7_CleanIdempotent ==
    normOut.done =>
        /\ normOut.cleanAgain = normOut.clean
        /\ hostId(normOut.clean) = normOut.id

\* a name that cleaning changes has been cleaned once and twice
C7_Witness ==
    /\ normOut.done
    /\ roomArg = LobbyNoisy
    /\ normOut.clean # roomArg
    /\ normOut.cleanAgain = normOut.clean

\* C8: the canonical id is the namespace prefix followed by the room name
\* with every character outside [a-zA-Z0-9] removed and lower-cased, so
\* "Lobby" and "  lobby!!" both get the id of "lobby".
C8_CanonicalId ==
    normOut.done =>
        /\ normOut.id = Prefix \o toLowerCase(AlnumOnly(roomArg))
        /\ roomArg \in {Lobby, LobbyNoisy} =>
               normOut.id = Prefix \o <<"l", "o", "b", "b", "y">>

\* "  lobby!!" has been given the id of "lobby"
C8_Witness ==
    /\ normOut.done
    /\ roomArg = LobbyNoisy
    /\ normOut.id = hostId(Lobby)
    /\ normOut.id = Prefix \o <<"l", "o", "b", "b", "y">>

(***************************************************************************)
(* The claims about the sessions.                                          *)
(***************************************************************************)

\* the role of a session: isHost once a claim or a dial has set it
Role(s) ==
    IF isHost[s] THEN "Coordinator"
    ELSE IF peer[s] # NoPeer THEN "Subordinate"
    ELSE "Unresolved"

ClaimsOf(s) == {p \in DOMAIN peers : peers[p].owner = s /\ peers[p].kind = "host"}
ClaimOf(s) == CHOOSE p \in ClaimsOf(s) : TRUE
CanonicalIds == {hostId(r) : r \in RoomNames}
Joiners(id) == {s \in Sessions : \E p \in ClaimsOf(s) : peers[p].id = id}

\* every connect call so far made its claim, and the joiners of id one each
OnceEach(id) ==
    /\ nConnects = Cardinality({p \in DOMAIN peers : peers[p].kind = "host"})
    /\ \A s \in Joiners(id) : Cardinality(ClaimsOf(s)) = 1

\* the rendezvous service answered every claim on id: granted or unavailable-id
Answered(id) ==
    \A s \in Joiners(id) :
        peers[ClaimOf(s)].st \in {"open", "unavailable"} /\ ~peers[ClaimOf(s)].erred

\* the dial of a session that lost the claim succeeded
Dialled(s) == ClientOf(ClaimOf(s)) \in DOMAIN conns /\ conns[ClientOf(ClaimOf(s))].cOpen

\* C1: of the sessions that called connect once on names of one canonical
\* id, never two are Coordinator; once the rendezvous service has answered
\* every claim exactly one is Coordinator, with status 'host', and every
\* other lost the claim and is not: it is Subordinate once its own peer
\* opened and has status 'client' once its dial succeeded.
C1_OneCoordinator ==
    \A id \in CanonicalIds :
        (Cardinality(Joiners(id)) >= 2 /\ OnceEach(id)) =>
            /\ Cardinality({s \in Joiners(id) : isHost[s]}) <= 1
            /\ Answered(id) =>
                \E w \in Joiners(id) :
                    /\ Role(w) = "Coordinator"
                    /\ lastStatus[w] = "host"
                    /\ \A s \in Joiners(id) \ {w} :
                        /\ Role(s) # "Coordinator"
                        /\ peers[ClaimOf(s)].st = "unavailable"
                        /\ peer[s] # NoPeer => Role(s) = "Subordinate"
                        /\ Dialled(s) => Role(s) = "Subordinate" /\ lastStatus[s] = "client"

\* three sessions joined under two names of one id: one is Coordinator and
\* the dials of the other two succeeded
C1_Witness ==
    \E id \in CanonicalIds :
        /\ Joiners(id) = Sessions /\ OnceEach(id) /\ Answered(id)
        /\ Cardinality({s \in Sessions : isHost[s]}) = 1
        /\ \A s \in Sessions : ~isHost[s] => Dialled(s) /\ lastStatus[s] = "client"

\* the steps of one kind in a list of steps
StepsOf(ops, kind) == SelectSeq(ops, LAMBDA o : o.t = kind)

\* how often x occurs in a sequence
Count(q, x) == Cardinality({i \in 1..Len(q) : q[i] = x})

\* the envelopes session s emitted before it first became Active and that
\* emit appended to the queue, in the order of the calls
QueuedBefore(s) ==
    LET es == SelectSeq(emitLog[s], LAMBDA e : e.route = "queued" /\ e.act = 0)
    IN  [i \in 1..Len(es) |-> es[i].d]

\* C2: nothing is sent by a session that was never Active; once a session
\* has become Active none of the envelopes queued before is left in the
\* queue, and a Subordinate has sent each of them once, in the order of the
\* emit calls.
C2_QueueFlushedOnce ==
    \A s \in Sessions :
        /\ activations[s] = 0 => sentLog[s] = <<>>
        /\ activations[s] >= 1 =>
            /\ \A i \in 1..Len(messageQueue[s]) :
                   messageQueue[s][i].data \notin Seq2Set(QueuedBefore(s))
            /\ Role(s) = "Subordinate" =>
                   LET sent == SelectSeq(sentLog[s],
                                         LAMBDA o : o.d \in Seq2Set(QueuedBefore(s)))
                   IN  [i \in 1..Len(sent) |-> sent[i].d] = QueuedBefore(s)

\* C3: emit invokes every handler subscribed to the event, in whatever state
\* the session is, and before the envelope is sent or queued.
C3_LocalDeliveryFirst ==
    lastOps.op = "emit" =>
        LET ops == lastOps.ops
            hs == handlers[lastOps.s][ops[1].ev]
            invoked == StepsOf(ops, "inv")
        IN  /\ [i \in 1..Len(invoked) |-> invoked[i].h] = hs
            /\ \A i, j \in 1..Len(ops) :
                   (ops[i].t = "inv" /\ ops[j].t \in {"send", "queue"}) => i < j

\* C4: a Coordinator that receives an envelope on a downstream handle sends
\* it, as it came, once on every other open downstream handle and on no
\* other handle (in a room whose sessions called connect once each).
C4_RelayToOthers ==
    LET s == lastOps.s
        hd == lastOps.hd
    IN  (/\ lastOps.op = "setupConnection_onData"
         /\ hd.side = "h" /\ isHost[s] /\ hd.c \in Seq2Set(connections[s])
         /\ \A t \in Sessions : Cardinality(ClaimsOf(t)) <= 1) =>
            LET ops == lastOps.ops
                sends == StepsOf(ops, "send")
                others == {Handle(x, "h") : x \in {y \in Seq2Set(connections[s]) :
                                                    y # hd.c /\ conns[y].hOpen}}
            IN  /\ {sends[i].hd : i \in 1..Len(sends)} = others
                /\ Len(sends) = Cardinality(others)
                /\ \A i \in 1..Len(sends) :
                       sends[i].ev = ops[1].ev /\ sends[i].d = ops[1].d

\* nothing is on its way on any connection
Quiet == \A c \in DOMAIN conns : conns[c].c2h = <<>> /\ conns[c].h2c = <<>>

\* C5: when A emits in a room of a Coordinator H and two Subordinates A and
\* B, all Active, the bus of A publishes the envelope once, the buses of H
\* and of B publish it once by the time nothing is on its way, H sends it
\* to B only, and nothing comes back to A.
C5_ThreePartyDelivery ==
    \A A \in Sessions : \A n \in 1..Len(emitLog[A]) :
        LET e == emitLog[A][n]
            H == e.scene[1]
            B == e.scene[2]
        IN  e.scene # <<>> =>
              /\ Count(busLog[A], e.d) = 1
              /\ Count(busLog[H], e.d) <= 1
              /\ Count(busLog[B], e.d) <= 1
              /\ Quiet => Count(busLog[H], e.d) = 1 /\ Count(busLog[B], e.d) = 1
              /\ \A i \in 1..Len(sentLog[H]) :
                     sentLog[H][i].d = e.d => sentLog[H][i].hd = Handle(hostConn[B], "h")

\* C6: the close of the upstream handle publishes status 'disconnected',
\* and an emit made while that is the last status and the upstream handle is
\* closed, the handle of another session, raises nothing, sends nothing and
\* appends its envelope to the queue.
C6_QueueAfterUpstreamLoss ==
    LET s == lastOps.s
        ops == lastOps.ops
    IN  /\ lastOps.op = "hostConn_onClose" =>
               ops[1].t = "pub" /\ ops[1].ev = "status" /\ ops[1].d[1] = "disconnected"
        /\ (/\ lastOps.op = "emit"
            /\ lastStatus[s] = "disconnected"
            /\ hostConn[s] # NoConn /\ conns[hostConn[s]].cClosed
            /\ Owner(conns[hostConn[s]].hp) # s) =>
               /\ StepsOf(ops, "raise") = <<>>
               /\ StepsOf(ops, "send") = <<>>
               /\ Len(StepsOf(ops, "queue")) = 1
               /\ ops[Len(ops)].t = "queue"
               /\ messageQueue[s] # <<>>
               /\ messageQueue[s][Len(messageQueue[s])].data = ops[1].d

\* C9: an emit whose local delivery returned either sends or queues: an
\* Active Coordinator sends the envelope once on every open downstream
\* handle, an Active Subordinate once on its upstream handle, and neither
\* queues; a session that is not Active queues it and sends nothing.
C9_SendOrQueue ==
    LET s == lastOps.s
        ops == lastOps.ops
        sends == StepsOf(ops, "send")
        queued == StepsOf(ops, "queue")
        open == {Handle(x, "h") : x \in {y \in Seq2Set(connections[s]) : conns[y].hOpen}}
    IN  (lastOps.op = "emit" /\ StepsOf(ops, "raise") = <<>>) =>
            /\ ~(sends # <<>> /\ queued # <<>>)
            /\ IF isConnected[s]
               THEN /\ queued = <<>>
                    /\ isHost[s] => /\ {sends[i].hd : i \in 1..Len(sends)} = open
                                    /\ Len(sends) = Cardinality(open)
                    /\ ~isHost[s] => /\ Len(sends) = 1
                                     /\ sends[1].hd = Handle(hostConn[s], "c")
               ELSE /\ sends = <<>>
                    /\ Len(queued) = 1
                    /\ messageQueue[s] # <<>>
                    /\ messageQueue[s][Len(messageQueue[s])].data = ops[1].d

\* C10: once a session is Coordinator or Subordinate no step makes it the other.
C10_RoleAssignedOnce ==
    [][\A s \in Sessions : Role(s) # "Unresolved" => Role(s)' = Role(s)]_vars

\* C11: a connect call on a session that is Active, its last status being
\* 'host' or 'client', is rejected: the call issues no claim and no dial,
\* publishes nothing, and leaves the role, the connection state, the upstream
\* handle, the downstream set and the outbound queue of the session as they were.
C11_ConnectWhileActiveRejected ==
    [][\A s \in Sessions :
          (/\ isConnected[s] /\ lastStatus[s] \in {"host", "client"}
           /\ lastOps'.op = "connect" /\ lastOps'.s = s
           /\ nConnects' = nConnects + 1) =>
              /\ netVars' = netVars
              /\ lastStatus'[s] = lastStatus[s]
              /\ isHost'[s] = isHost[s] /\ isConnected'[s] = isConnected[s]
              /\ hostConn'[s] = hostConn[s] /\ connections'[s] = connections[s]
              /\ messageQueue'[s] = messageQueue[s]]_vars

\* C12: when a handler raises during a publication, every handler registered
\* after it for the event is still invoked in the same task, and the publisher
\* goes on: an emit still sends or queues its envelope, and a connect still
\* issues its claim.
C12_HandlerFailureIsolated ==
    LET s == lastOps.s
        ops == lastOps.ops
    IN  /\ \A i \in 1..Len(ops) :
               ops[i].t = "raise" =>
                   LET hs == handlers[s][ops[i].ev]
                       at == Len(StepsOf(SubSeq(ops, 1, i), "inv"))
                   IN  \A j \in (at + 1)..Len(hs) :
                           \E n \in (i + 1)..Len(ops) :
                               ops[n].t = "inv" /\ ops[n].h = hs[j]
        /\ \A e \in Sessions : \A n \in 1..Len(emitLog[e]) : emitLog[e][n].route # "raised"
        /\ lastOps.op = "connect" =>
               <<s, Len(statusLog[s]), "host">> \in DOMAIN peers

\* C13: a publication, by any task, invokes the handlers registered for its
\* event name, each registration once and in registration order, with the
\* published payload, and invokes nothing else; with no handler registered
\* for the event nothing is invoked.
C13_PublishInvokesRegistered ==
    LET s == lastOps.s
        ops == lastOps.ops
        pubs == StepsOf(ops, "pub")
        invoked == StepsOf(ops, "inv")
    IN  pubs # <<>> =>
            /\ Len(pubs) = 1
            /\ Len(invoked) = Len(handlers[s][pubs[1].ev])
            /\ \A i \in 1..Len(invoked) :
                   /\ invoked[i].h = handlers[s][pubs[1].ev][i]
                   /\ invoked[i].ev = pubs[1].ev
                   /\ invoked[i].d = pubs[1].d

\* C14: an off call removes one registration of the handler from the list of
\* the event, the list being otherwise the same, other events and other
\* sessions untouched; for a handler that is not registered nothing changes.
C14_OffRemovesOne ==
    [][\A s \in Sessions, ev \in EventNames, h \in HandlerIds :
          off(s, ev, h) =>
              /\ Len(handlers'[s][ev]) = Len(handlers[s][ev]) - 1
              /\ \A x \in HandlerIds :
                     Count(handlers'[s][ev], x) =
                         Count(handlers[s][ev], x) - (IF x = h THEN 1 ELSE 0)
              /\ \A t \in Sessions, e \in EventNames :
                     <<t, e>> # <<s, ev>> => handlers'[t][e] = handlers[t][e]]_vars

\* C15: when the dial that follows an AlreadyClaimed answer fails, the task
\* that handles the failure, in a session that called connect once, publishes
\* status 'error', which is then the last status of the session, and the
\* session is not connected.
C15_DialFailureIsError ==
    LET s == lastOps.s
        ops == lastOps.ops
    IN  (lastOps.op = "connectAsClient_onError" /\ Cardinality(ClaimsOf(s)) = 1) =>
            /\ \E i \in 1..Len(ops) :
                   ops[i].t = "pub" /\ ops[i].ev = "status" /\ ops[i].d[1] = "error"
            /\ lastStatus[s] = "error"
            /\ ~isConnected[s]

\* C16: a session that called connect once and whose claim failed with an
\* error other than unavailable-id has published status 'error' for that
\* call, has no dialing peer, no role and is not connected, and an emit it
\* makes in that state ends by appending its envelope to the queue.
C16_ClaimFailureIsError ==
    \A s \in Sessions :
        (Cardinality(ClaimsOf(s)) = 1 /\ peers[ClaimOf(s)].st = "failed") =>
            /\ \E i \in 1..Len(StatusOf(s, ClaimOf(s)[2])) :
                   StatusOf(s, ClaimOf(s)[2])[i].status = "error"
            /\ ~\E p \in DOMAIN peers : peers[p].owner = s /\ peers[p].kind = "client"
            /\ Role(s) = "Unresolved"
            /\ ~isConnected[s]
            /\ (lastOps.op = "emit" /\ lastOps.s = s) =>
                   /\ lastOps.ops[Len(lastOps.ops)].t = "queue"
                   /\ messageQueue[s] # <<>>
                   /\ messageQueue[s][Len(messageQueue[s])].data = lastOps.ops[1].d

Before(q, i, status) == \E j \in 1..(i - 1) : q[j].status = status

\* C17: of the status events of one connect call the first is 'connecting';
\* 'host' comes only when the claim of the call was granted; 'client' comes
\* only when the claim was answered unavailable-id, a 'connecting' with the
\* handshaking label came before it and the dialled connection opened; 'host'
\* and 'client' never both come; and 'disconnected' comes only after 'client'.
C17_StatusStateMachine ==
    \A s \in Sessions : \A n \in Calls(s) :
        LET q == StatusOf(s, n)
            statuses == {q[i].status : i \in 1..Len(q)}
            claim == <<s, n, "host">>
            dial == <<s, n, "client">>
        IN  /\ q[1] = [status |-> "connecting", label |-> "Resolving Host..."]
            /\ "host" \in statuses =>
                   claim \in DOMAIN peers /\ peers[claim].st = "open"
            /\ \A i \in 1..Len(q) :
                   q[i].status = "client" =>
                       /\ claim \in DOMAIN peers /\ peers[claim].st = "unavailable"
                       /\ \E j \in 2..(i - 1) :
                              q[j].status = "connecting" /\ q[j].label = "Handshaking..."
                       /\ dial \in DOMAIN conns
                       /\ conns[dial].cOpen \/ conns[dial].cClosed
            /\ ~({"host", "client"} \subseteq statuses)
            /\ \A i \in 1..Len(q) : q[i].status = "disconnected" => Before(q, i, "client")

\* a Subordinate that lost its upstream: every status of the machine but
\* 'host' was published for one connect call
C17_Witness ==
    \E s \in Sessions : \E n \in Calls(s) :
        LET q == StatusOf(s, n)
        IN  /\ Len(q) = 4
            /\ [i \in 1..4 |-> q[i].status] =
                   <<"connecting", "connecting", "client", "disconnected">>
            /\ \E t \in Sessions \ {s} : lastStatus[t] = "host"

\* C18: the close of a handle to another session that is not the current
\* upstream handle of the session that dialled it, and the close of a handle
\* that is not in the downstream set of the session that accepted it, raises
\* nothing, publishes nothing and leaves the connection state, the role, the
\* upstream handle and the downstream set of that session as they were.
C18_StaleCloseIgnored ==
    [][\A s \in Sessions :
          LET c == lastOps'.hd.c
              stale == \/ /\ lastOps'.op = "hostConn_onClose"
                          /\ c # hostConn[s] /\ Owner(conns[c].hp) # s
                       \/ /\ lastOps'.op = "setupConnection_onClose"
                          /\ c \notin Seq2Set(connections[s])
          IN  (nFaults' = nFaults + 1 /\ lastOps'.s = s /\ stale) =>
                  /\ lastOps'.ops = <<>>
                  /\ isConnected'[s] = isConnected[s]
                  /\ lastStatus'[s] = lastStatus[s]
                  /\ isHost'[s] = isHost[s] /\ peer'[s] = peer[s]
                  /\ hostConn'[s] = hostConn[s]
                  /\ connections'[s] = connections[s]]_vars

\* session s called connect once, and its claim failed, or the dial that
\* followed it failed, or its upstream handle opened and closed
Idle(s) ==
    /\ Cardinality(ClaimsOf(s)) = 1
    /\ LET p == ClaimOf(s)
           d == ClientOf(p)
       IN  \/ peers[p].st = "failed"
           \/ /\ d \in DOMAIN peers
              /\ \/ peers[d].st = "failed"
                 \/ d \in DOMAIN conns /\ (conns[d].failed \/ conns[d].cClosed)

OwnedPeers(ps, s) == {p \in DOMAIN ps : ps[p].owner = s}

\* C19: while a session is in that state, a step that is not a connect call
\* of the session creates no peer and no connection for it and does not make
\* it connected, and each emit call of the session appends its envelope to
\* the queue.
C19_NoRetry ==
    [][\A s \in Sessions :
          (Idle(s) /\ ~(lastOps'.op = "connect" /\ lastOps'.s = s /\ nConnects' = nConnects + 1)) =>
              /\ OwnedPeers(peers', s) = OwnedPeers(peers, s)
              /\ {c \in DOMAIN conns' : c[1] = s} = {c \in DOMAIN conns : c[1] = s}
              /\ ~isConnected[s] /\ ~isConnected'[s]
              /\ (nEmits' = nEmits + 1 /\ lastOps'.s = s) =>
                     /\ Len(messageQueue'[s]) = Len(messageQueue[s]) + 1
                     /\ messageQueue'[s][Len(messageQueue'[s])].data = lastOps'.ops[1].d
                     /\ SubSeq(messageQueue'[s], 1, Len(messageQueue[s])) = messageQueue[s]]_vars

\* C20: the close of a downstream handle of a Coordinator publishes status
\* 'disconnected' in the Coordinator, which is then not connected, and an
\* emit of a Coordinator whose downstream handles have all closed appends its
\* envelope to the queue.
C20_DownstreamLossSurfaced ==
    \A s \in Sessions :
        LET down == {c \in DOMAIN conns : conns[c].hp = peer[s] /\ conns[c].wired}
        IN  /\ (lastOps.op = "setupConnection_onClose" /\ lastOps.s = s /\ isHost[s]) =>
                   /\ \E i \in 1..Len(lastOps.ops) :
                          /\ lastOps.ops[i].t = "pub" /\ lastOps.ops[i].ev = "status"
                          /\ lastOps.ops[i].d[1] = "disconnected"
                   /\ lastStatus[s] = "disconnected"
                   /\ ~isConnected[s]
            /\ (/\ lastOps.op = "emit" /\ lastOps.s = s /\ isHost[s]
                /\ down # {} /\ \A c \in down : conns[c].hClosed) =>
                   /\ lastOps.ops[Len(lastOps.ops)].t = "queue"
                   /\ messageQueue[s] # <<>>
                   /\ messageQueue[s][Len(messageQueue[s])].data = lastOps.ops[1].d

\* C21: a task of a session that is not host sends on no handle but the
\* upstream handle of the session, and the receipt of an envelope on the
\* upstream handle publishes it once on the local bus and sends nothing.
C21_SubordinateNeverForwards ==
    LET s == lastOps.s
        ops == lastOps.ops
        sends == StepsOf(ops, "send")
    IN  (lastOps.op \in {"emit", "hostConn_onOpen", "setupConnection_onData"} /\ ~isHost[s]) =>
            /\ \A i \in 1..Len(sends) : sends[i].hd = Handle(hostConn[s], "c")
            /\ (lastOps.op = "setupConnection_onData" /\ lastOps.hd.side = "c") =>
                   /\ sends = <<>>
                   /\ Len(StepsOf(ops, "pub")) = 1
                   /\ busLog[s] # <<>> /\ busLog[s][Len(busLog[s])] = ops[1].d

\* a Subordinate has received, on its upstream handle, an envelope that the
\* Coordinator, another session, emitted
C21_Witness ==
    LET s == lastOps.s
    IN  /\ lastOps.op = "setupConnection_onData" /\ lastOps.hd.side = "c"
        /\ ~isHost[s] /\ hostConn[s] = lastOps.hd.c
        /\ Owner(conns[hostConn[s]].hp) # s
        /\ busLog[s] # <<>>
        /\ busLog[s] = busLog[Owner(conns[hostConn[s]].hp)]

\* the inbound handles session s accepted that have not closed
Accepted(s) == {c \in DOMAIN conns : Owner(conns[c].hp) = s /\ conns[c].wired /\ ~conns[c].hClosed}

\* C22: the downstream set of a session holds the inbound handles it accepted
\* that have not closed, each once; no task sends on a closed handle; and the
\* downstream set of a session that is not host is empty.
C22_DownstreamSet ==
    /\ \A s \in Sessions :
           /\ Seq2Set(connections[s]) = Accepted(s)
           /\ Len(connections[s]) = Cardinality(Accepted(s))
           /\ ~isHost[s] => connections[s] = <<>>
    /\ \A i \in 1..Len(lastOps.ops) :
           (lastOps.ops[i].t = "send" /\ lastOps.ops[i].hd.side = "h") =>
               ~conns[lastOps.ops[i].hd.c].hClosed

\* the positions of the steps of one kind in a list of steps
At(ops, kind) == {i \in 1..Len(ops) : ops[i].t = kind}

\* C23: the task that runs on a granted claim registers the callback for
\* inbound connections, then publishes status 'host', then sends the queued
\* envelopes: the registration comes before the publication and the
\* publication before every send.
C23_ActivationOrder ==
    LET ops == lastOps.ops
    IN  lastOps.op = "connect_onOpen" =>
            /\ At(ops, "listen") # {} /\ At(ops, "pub") # {}
            /\ \A i \in At(ops, "listen"), j \in At(ops, "pub") :
                   ops[j].d[1] = "host" /\ i < j
            /\ \A j \in At(ops, "pub"), n \in At(ops, "send") : j < n

\* session s treats itself as Active and its last status says so
Active(s) == isConnected[s] /\ lastStatus[s] \in {"host", "client"}

\* C24: between tasks, the queue of an Active session is empty.
C24_QueueEmptyWhenActive ==
    \A s \in Sessions : Active(s) => messageQueue[s] = <<>>

\* the position of envelope d among the emit calls of session s, 0 if none
EmitIndex(s, d) ==
    IF \E i \in 1..Len(emitLog[s]) : emitLog[s][i].d = d
    THEN CHOOSE i \in 1..Len(emitLog[s]) : emitLog[s][i].d = d
    ELSE 0

\* C25: on every handle, the envelopes emitted by a session that called
\* connect once are sent in the order of its emit calls, also when an emit
\* call is made by a 'status' subscriber during the activation that flushes
\* the queue.
C25_TransmissionOrder ==
    \A s \in Sessions : \A i, j \in 1..Len(sentLog[s]) :
        (/\ Cardinality(ClaimsOf(s)) = 1
         /\ i < j
         /\ sentLog[s][i].hd = sentLog[s][j].hd
         /\ EmitIndex(s, sentLog[s][i].d) > 0
         /\ EmitIndex(s, sentLog[s][j].d) > 0) =>
            EmitIndex(s, sentLog[s][i].d) <= EmitIndex(s, sentLog[s][j].d)

\* C26: the task run on a granted claim sends on no handle and leaves the
\* queue empty, and the callback for inbound connections is registered as
\* its last step.
C26_HostFlushSendsNothing ==
    LET ops == lastOps.ops
    IN  lastOps.op = "connect_onOpen" =>
            /\ At(ops, "send") = {}
            /\ messageQueue[lastOps.s] = <<>>
            /\ ops[Len(ops)].t = "listen"

\* C27: the envelope of an emit call of a Subordinate has been sent on the
\* upstream handle of the session or is the last entry of its queue when the
\* call is over, whatever the handlers did and however many times connect
\* was called.
C27_SubordinateNeverLoses ==
    LET s == lastOps.s
        ops == lastOps.ops
    IN  (lastOps.op = "emit" /\ Role(s) = "Subordinate") =>
            \/ \E i \in At(ops, "send") :
                   ops[i].hd = Handle(hostConn[s], "c") /\ ops[i].d = ops[1].d
            \/ /\ messageQueue[s] # <<>>
               /\ messageQueue[s][Len(messageQueue[s])].data = ops[1].d

\* C28: between tasks, a session that published a status is connected, so
\* that its emit sends instead of queueing, exactly when the status it
\* published last is 'host' or 'client'.
C28_FlagAgreesWithStatus ==
    \A s \in Sessions :
        statusLog[s] # <<>> => (isConnected[s] <=> lastStatus[s] \in {"host", "client"})


NoTwoSameId(list) ==
    \A i, j \in 1..Len(list) : i # j => list[i].id # list[j].id

\* C29: the message list never holds two messages with the same id: a
\* message whose id is already in the list, or whose roomId is not the
\* active room, leaves the list as it was, and every other message is
\* appended at the end, so the list is in arrival order.
C29_MessageListDeduplicated ==
    /\ NoTwoSameId(messages)
    /\ appLast.op = "message" =>
         LET msg == appLast.arg
             before == appLast.before
         IN  IF msg.id \in IdsOf(before) \/ msg.roomId # activeRoom
             THEN messages = before
             ELSE messages = Append(before, msg)

\* a message with an id already listed arrived for the active room, on a
\* list whose arrival order is not the order of the ids
C29_Witness ==
    /\ appLast.op = "message"
    /\ appLast.arg.roomId = activeRoom
    /\ appLast.arg.id \in IdsOf(appLast.before)
    /\ Len(messages) >= 2
    /\ messages[1].id > messages[2].id
    /\ messages = appLast.before


Members(msg, emoji) == Range(UsersOf(msg.reactions.keys, emoji))

\* every emoji key has a user list that is not empty and names no user twice
WellFormed(list) ==
    \A i \in 1..Len(list) :
       LET keys == list[i].reactions.keys
       IN  \A k \in 1..Len(keys) :
              /\ Len(keys[k].users) > 0
              /\ \A a, b \in 1..Len(keys[k].users) :
                    a # b => keys[k].users[a] # keys[k].users[b]
              /\ \A j \in 1..Len(keys) : j # k => keys[j].emoji # keys[k].emoji

\* the same messages with, for every emoji, the same set of users
SameMembership(a, b) ==
    /\ Len(a) = Len(b)
    /\ \A i \in 1..Len(a) :
          /\ a[i].id = b[i].id
          /\ a[i].roomId = b[i].roomId
          /\ \A e \in 1..ReactEmojis : Members(a[i], e) = Members(b[i], e)

KeysOf(list) == [i \in 1..Len(list) |-> list[i].reactions.keys]

\* C30: a reaction event toggles the membership of userId in the list of
\* the named message for the named emoji and changes nothing else: the
\* other emoji of that message and every other message are as before, an
\* event naming an unknown messageId changes no message, no user id is
\* twice in a list, no emoji key has an empty list, and applying the same
\* event once more gives every emoji the set of users it had at first.
C30_ReactionToggles ==
    /\ WellFormed(messages)
    /\ appLast.op = "reaction" =>
         LET payload == appLast.arg
             before == appLast.before
             twice == updatedMessages(messages, payload)
         IN  /\ Len(messages) = Len(before)
             /\ \A i \in 1..Len(before) :
                   IF before[i].id # payload.messageId
                   THEN messages[i] = before[i]
                   ELSE /\ messages[i].id = before[i].id
                        /\ messages[i].roomId = before[i].roomId
                        /\ payload.userId \in Members(messages[i], payload.emoji)
                             <=> payload.userId \notin Members(before[i], payload.emoji)
                        /\ Members(messages[i], payload.emoji) \ {payload.userId}
                             = Members(before[i], payload.emoji) \ {payload.userId}
                        /\ \A e \in 1..ReactEmojis :
                              e # payload.emoji =>
                                 UsersOf(messages[i].reactions.keys, e)
                                    = UsersOf(before[i].reactions.keys, e)
             /\ SameMembership(twice, before)

\* a reaction was removed from a listed message, and applying the event
\* once more gives the same users in lists that are not the first ones
C30_Witness ==
    /\ appLast.op = "reaction"
    /\ \E i \in 1..Len(messages) :
          /\ messages[i].id = appLast.arg.messageId
          /\ appLast.arg.userId \in Members(appLast.before[i], appLast.arg.emoji)
          /\ appLast.arg.userId \notin Members(messages[i], appLast.arg.emoji)
    /\ SameMembership(updatedMessages(messages, appLast.arg), appLast.before)
    /\ KeysOf(updatedMessages(messages, appLast.arg)) # KeysOf(appLast.before)

\* applying the same reaction event twice gives back the reactions as they
\* were, lists and keys in their first order
C30_TwiceRestoresLists ==
    appLast.op = "reaction" =>
       KeysOf(updatedMessages(messages, appLast.arg)) = KeysOf(appLast.before)


\* C31: the application calls connect at most once per page load, either
\* from the effect that restores a saved authenticated session on mount or
\* from the join form, never both and never one of them twice; the session
\* object of the page holds at most one peer made by connect.
C31_ConnectOncePerLoad ==
    /\ Len(page.calls) <= 1
    /\ \A i \in 1..Len(page.past) : Len(page.past[i]) <= 1
    /\ Cardinality({p \in DOMAIN peers : p[1] = Visitor /\ p[3] = "host"}) = Len(page.calls)
    /\ Len(statusLog[Visitor]) = Len(page.calls)
    /\ "restore" \in Range(page.calls) => page.stored.saved /\ page.isAuthenticated
    /\ "join" \in Range(page.calls) => page.isAuthenticated

\* a later page load restored the session that the join form of an earlier
\* page load saved
C31_Witness ==
    /\ page.load >= 2
    /\ page.mounted
    /\ page.calls = <<"restore">>
    /\ page.past[page.load - 1] = <<"join">>
    /\ page.stored.messages # <<>>

=============================================================================
